---- MODULE Spec2Model ----
(***************************************************************************)
(* Credential broker of src-tauri/src/commands.rs: six commands over the   *)
(* OS keystore (keyring::Entry) under one fixed service name.              *)
(*                                                                         *)
(* The keystore is the only persistent state.  A command runs to           *)
(* completion in one step; its arguments, the keystore it started from,    *)
(* the keystore accesses it made and its result are kept in `last` until   *)
(* the frontend takes the response (Return).                               *)
(*                                                                         *)
(* The environment decides, per call, whether one of the keyring calls     *)
(* fails for a reason other than absence: `fault` names the position of    *)
(* the per-key step that fails (0: none) and the keyring error it raises.  *)
(* A construction error makes Entry::new fail, a backend error makes the   *)
(* set_password / get_password / delete_credential of that step fail.      *)
(***************************************************************************)
EXTENDS Integers, Sequences, FiniteSets, TLC

VARIABLES keystore, last, history

vars == <<keystore, last, history>>

\* Longest batch argument the model enumerates.
MaxLen == 3

Keys == {"A", "B", "C"}
Values == {"v1", "v2"}

SERVICE_NAME == "teams-agent-bridge"

\* keyring::Error variants the calls can raise.
NoEntry == "NoEntry"
CtorErrors == {"TooLong"}
BackendErrors == {"NoStorageAccess"}

\* Display of a keyring::Error, as `{}` prints it.
Display(e) ==
    CASE e = "NoEntry" -> "No matching entry found in secure storage"
      [] e = "TooLong" -> "Attribute 'user' is longer than platform limit"
      [] e = "NoStorageAccess" -> "Couldn't access platform secure storage"
      [] OTHER -> "Unknown keyring error"

Ok(x) == [tag |-> "Ok", val |-> x]
Err(m) == [tag |-> "Err", msg |-> m]
None == <<>>
Some(x) == <<x>>
Unit == "()"

NoFault == [at |-> 0, err |-> "none"]
FaultPlans(n) == {NoFault} \cup [at : 1..n, err : CtorErrors \cup BackendErrors]

\* Entry::new(SERVICE_NAME, &key): the handle names (service, user).
EntryNew(key, f, i) ==
    IF f.at = i /\ f.err \in CtorErrors
    THEN Err(f.err)
    ELSE Ok(<<SERVICE_NAME, key>>)

\* Mutant of SetPassword: creates the secret but never overwrites one.
SetPasswordCreateOnly(st, entry, value, f, i) ==
    IF f.at = i /\ f.err \in BackendErrors
    THEN [res |-> Err(f.err), st |-> st]
    ELSE [res |-> Ok(Unit),
          st |-> [e \in DOMAIN st \cup {entry} |->
                    IF e \in DOMAIN st THEN st[e] ELSE value]]

\* entry.set_password(&value): create or overwrite the entry's secret.
SetPassword(st, entry, value, f, i) ==
    IF f.at = i /\ f.err \in BackendErrors
    THEN [res |-> Err(f.err), st |-> st]
    ELSE [res |-> Ok(Unit),
          st |-> [e \in DOMAIN st \cup {entry} |-> IF e = entry THEN value ELSE st[e]]]

\* entry.get_password(): the secret, or Error::NoEntry when there is none.
GetPassword(st, entry, f, i) ==
    IF f.at = i /\ f.err \in BackendErrors
    THEN Err(f.err)
    ELSE IF entry \in DOMAIN st THEN Ok(st[entry]) ELSE Err(NoEntry)

\* Mutant of DeleteCredential: reports the removal but keeps the secret.
DeleteCredentialKeeps(st, entry, f, i) ==
    IF f.at = i /\ f.err \in BackendErrors
    THEN [res |-> Err(f.err), st |-> st]
    ELSE IF entry \in DOMAIN st
         THEN [res |-> Ok(Unit), st |-> st]
         ELSE [res |-> Err(NoEntry), st |-> st]

\* Mutant of DeleteCredential: removes every secret of the service.
DeleteCredentialClearsService(st, entry, f, i) ==
    IF f.at = i /\ f.err \in BackendErrors
    THEN [res |-> Err(f.err), st |-> st]
    ELSE IF entry \in DOMAIN st
         THEN [res |-> Ok(Unit), st |-> [e \in {} |-> "v1"]]
         ELSE [res |-> Err(NoEntry), st |-> st]

\* entry.delete_credential(): remove the secret, or Error::NoEntry.
DeleteCredential(st, entry, f, i) ==
    IF f.at = i /\ f.err \in BackendErrors
    THEN [res |-> Err(f.err), st |-> st]
    ELSE IF entry \in DOMAIN st
         THEN [res |-> Ok(Unit), st |-> [e \in DOMAIN st \ {entry} |-> st[e]]]
         ELSE [res |-> Err(NoEntry), st |-> st]

\* format!("Failed to create keyring entry: {}", e)
CreateMsg(e) == <<"Failed to create keyring entry: ", Display(e)>>
\* format!("Failed to store credential '{}': {}", key, e)
StoreMsg(key, e) == <<"Failed to store credential '", key, "': ", Display(e)>>
\* format!("Failed to retrieve credential '{}': {}", key, e)
RetrieveMsg(key, e) == <<"Failed to retrieve credential '", key, "': ", Display(e)>>
\* format!("Failed to delete credential '{}': {}", key, e)
DeleteMsg(key, e) == <<"Failed to delete credential '", key, "': ", Display(e)>>

\* The keys a sequence names.
Named(keys) == {keys[i] : i \in DOMAIN keys}

\* One keyring access of a command: the step, the call and the key.
Access(i, call, key) == [pos |-> i, call |-> call, key |-> key]

store_credential(st, key, value, f) ==
    LET entry == EntryNew(key, f, 1) IN
    IF entry.tag = "Err"
    THEN [result |-> Err(CreateMsg(entry.msg)), st |-> st, log |-> <<>>]
    ELSE LET w == SetPassword(st, entry.val, value, f, 1) IN
         [result |-> IF w.res.tag = "Err" THEN Err(StoreMsg(key, w.res.msg)) ELSE Ok(Unit),
          st |-> w.st,
          log |-> <<Access(1, "set_password", key)>>]

\* Mutant of get_credential: every keyring error reads as absence.
get_credential_conflating(st, key, f) ==
    LET entry == EntryNew(key, f, 1) IN
    IF entry.tag = "Err"
    THEN [result |-> Err(CreateMsg(entry.msg)), st |-> st, log |-> <<>>]
    ELSE LET g == GetPassword(st, entry.val, f, 1) IN
         [result |-> IF g.tag = "Ok" THEN Ok(Some(g.val)) ELSE Ok(None),
          st |-> st,
          log |-> <<Access(1, "get_password", key)>>]

get_credential(st, key, f) ==
    LET entry == EntryNew(key, f, 1) IN
    IF entry.tag = "Err"
    THEN [result |-> Err(CreateMsg(entry.msg)), st |-> st, log |-> <<>>]
    ELSE LET g == GetPassword(st, entry.val, f, 1) IN
         [result |-> IF g.tag = "Ok" THEN Ok(Some(g.val))
                     ELSE IF g.msg = NoEntry THEN Ok(None)
                     ELSE Err(RetrieveMsg(key, g.msg)),
          st |-> st,
          log |-> <<Access(1, "get_password", key)>>]

delete_credential(st, key, f) ==
    LET entry == EntryNew(key, f, 1) IN
    IF entry.tag = "Err"
    THEN [result |-> Err(CreateMsg(entry.msg)), st |-> st, log |-> <<>>]
    ELSE LET d == DeleteCredential(st, entry.val, f, 1) IN
         [result |-> IF d.res.tag = "Ok" THEN Ok(TRUE)
                     ELSE IF d.res.msg = NoEntry THEN Ok(FALSE)
                     ELSE Err(DeleteMsg(key, d.res.msg)),
          st |-> d.st,
          log |-> <<Access(1, "delete_credential", key)>>]

\* Sequences over S of length at most n.
SeqsUpTo(S, n) == UNION {[1..m -> S] : m \in 0..n}

RECURSIVE StoreLoop(_, _, _, _, _, _)
\* The for loop of store_credentials_batch from pair i on.
StoreLoop(st, credentials, f, i, count, log) ==
    IF i > Len(credentials)
    THEN [result |-> Ok(count), st |-> st, log |-> log]
    ELSE LET key == credentials[i][1]
             value == credentials[i][2]
             entry == EntryNew(key, f, i)
         IN  IF entry.tag = "Err"
             THEN [result |-> Err(CreateMsg(entry.msg)), st |-> st, log |-> log]
             ELSE LET w == SetPassword(st, entry.val, value, f, i)
                      log2 == Append(log, Access(i, "set_password", key))
                  IN  IF w.res.tag = "Err"
                      THEN [result |-> Err(StoreMsg(key, w.res.msg)), st |-> w.st, log |-> log2]
                      ELSE StoreLoop(w.st, credentials, f, i + 1, count + 1, log2)

\* Mutant of store_credentials_batch: all or nothing, a failure undoes the
\* writes made before it.
store_credentials_batch_atomic(st, credentials, f) ==
    LET r == StoreLoop(st, credentials, f, 1, 0, <<>>)
    IN  IF r.result.tag = "Err" THEN [r EXCEPT !.st = st] ELSE r

\* Mutant of store_credentials_batch: the pairs are written last to first.
store_credentials_batch_reversed(st, credentials, f) ==
    StoreLoop(st, [i \in DOMAIN credentials |-> credentials[Len(credentials) + 1 - i]],
              f, 1, 0, <<>>)

store_credentials_batch(st, credentials, f) ==
    StoreLoop(st, credentials, f, 1, 0, <<>>)

\* serde_json::Map::insert: add the key or replace its value.
MapInsert(m, key, v) == [k \in DOMAIN m \cup {key} |-> IF k = key THEN v ELSE m[k]]

EmptyMap == [k \in {} |-> "v1"]

RECURSIVE GetLoop(_, _, _, _, _, _)
\* The for loop of get_credentials_batch from key i on.
GetLoop(st, keys, f, i, result, log) ==
    IF i > Len(keys)
    THEN [result |-> Ok(result), st |-> st, log |-> log]
    ELSE LET key == keys[i]
             entry == EntryNew(key, f, i)
         IN  IF entry.tag = "Err"
             THEN [result |-> Err(CreateMsg(entry.msg)), st |-> st, log |-> log]
             ELSE LET g == GetPassword(st, entry.val, f, i)
                      log2 == Append(log, Access(i, "get_password", key))
                  IN  IF g.tag = "Ok"
                      THEN GetLoop(st, keys, f, i + 1, MapInsert(result, key, g.val), log2)
                      ELSE IF g.msg = NoEntry
                      THEN GetLoop(st, keys, f, i + 1, result, log2)
                      ELSE [result |-> Err(RetrieveMsg(key, g.msg)), st |-> st, log |-> log2]

\* Mutant of get_credentials_batch: a missing key is reported with an empty
\* value instead of being left out.
get_credentials_batch_nulls(st, keys, f) ==
    LET r == GetLoop(st, keys, f, 1, EmptyMap, <<>>)
    IN  IF r.result.tag = "Err" THEN r
        ELSE [r EXCEPT !.result =
                 Ok([k \in Named(keys) |->
                       IF k \in DOMAIN r.result.val THEN r.result.val[k] ELSE ""])]

get_credentials_batch(st, keys, f) ==
    GetLoop(st, keys, f, 1, EmptyMap, <<>>)

RECURSIVE DeleteLoop(_, _, _, _, _, _)
\* The for loop of delete_credentials_batch from key i on.
DeleteLoop(st, keys, f, i, count, log) ==
    IF i > Len(keys)
    THEN [result |-> Ok(count), st |-> st, log |-> log]
    ELSE LET key == keys[i]
             entry == EntryNew(key, f, i)
         IN  IF entry.tag = "Err"
             THEN [result |-> Err(CreateMsg(entry.msg)), st |-> st, log |-> log]
             ELSE LET d == DeleteCredential(st, entry.val, f, i)
                      log2 == Append(log, Access(i, "delete_credential", key))
                  IN  IF d.res.tag = "Ok"
                      THEN DeleteLoop(d.st, keys, f, i + 1, count + 1, log2)
                      ELSE IF d.res.msg = NoEntry
                      THEN DeleteLoop(d.st, keys, f, i + 1, count, log2)
                      ELSE [result |-> Err(DeleteMsg(key, d.res.msg)), st |-> d.st, log |-> log2]

\* Mutant of delete_credentials_batch: counts every key it was given.
delete_credentials_batch_countall(st, keys, f) ==
    LET r == DeleteLoop(st, keys, f, 1, 0, <<>>)
    IN  IF r.result.tag = "Err" THEN r ELSE [r EXCEPT !.result = Ok(Len(keys))]

\* Mutant of delete_credentials_batch: a failure restores the secrets
\* deleted before it.
delete_credentials_batch_rollback(st, keys, f) ==
    LET r == DeleteLoop(st, keys, f, 1, 0, <<>>)
    IN  IF r.result.tag = "Err" THEN [r EXCEPT !.st = st] ELSE r

delete_credentials_batch(st, keys, f) ==
    DeleteLoop(st, keys, f, 1, 0, <<>>)

Idle == [op |-> "idle"]

Init ==
    /\ keystore = [e \in {} |-> "v1"]
    /\ last = Idle
    /\ history = [k \in Keys |-> <<>>]

Call(op, keys, values, f, r) ==
    /\ keystore' = r.st
    /\ last' = [op |-> op, keys |-> keys, values |-> values, fault |-> f,
                pre |-> keystore, prior |-> history,
                result |-> r.result, log |-> r.log]
    /\ history' = [k \in Keys |->
          IF k \notin Named(keys) THEN history[k]
          ELSE IF op = "store_credential" /\ r.result.tag = "Ok" THEN <<"stored", values[1]>>
          ELSE IF op = "delete_credential" /\ r.result = Ok(TRUE) THEN <<"deleted">>
          ELSE <<>>]

Store ==
    /\ last = Idle
    /\ \E key \in Keys, value \in Values, f \in FaultPlans(1) :
          Call("store_credential", <<key>>, <<value>>, f, store_credential(keystore, key, value, f))

Get ==
    /\ last = Idle
    /\ \E key \in Keys, f \in FaultPlans(1) :
          Call("get_credential", <<key>>, <<>>, f, get_credential(keystore, key, f))

Delete ==
    /\ last = Idle
    /\ \E key \in Keys, f \in FaultPlans(1) :
          Call("delete_credential", <<key>>, <<>>, f, delete_credential(keystore, key, f))

StoreBatch ==
    /\ last = Idle
    /\ \E credentials \in SeqsUpTo(Keys \X Values, MaxLen) :
       \E f \in FaultPlans(Len(credentials)) :
          Call("store_credentials_batch",
               [i \in DOMAIN credentials |-> credentials[i][1]],
               [i \in DOMAIN credentials |-> credentials[i][2]],
               f, store_credentials_batch(keystore, credentials, f))

GetBatch ==
    /\ last = Idle
    /\ \E keys \in SeqsUpTo(Keys, MaxLen) :
       \E f \in FaultPlans(Len(keys)) :
          Call("get_credentials_batch", keys, <<>>, f, get_credentials_batch(keystore, keys, f))

DeleteBatch ==
    /\ last = Idle
    /\ \E keys \in SeqsUpTo(Keys, MaxLen) :
       \E f \in FaultPlans(Len(keys)) :
          Call("delete_credentials_batch", keys, <<>>, f, delete_credentials_batch(keystore, keys, f))

Return ==
    /\ last # Idle
    /\ last' = Idle
    /\ UNCHANGED <<keystore, history>>

Next == Store \/ Get \/ Delete \/ StoreBatch \/ GetBatch \/ DeleteBatch \/ Return

Spec == Init /\ [][Next]_vars
(***************************************************************************)
(* Vocabulary of the properties.                                           *)
(***************************************************************************)

\* What the keystore st holds for key k: Some(value) or None.
Stored(st, k) ==
    IF <<SERVICE_NAME, k>> \in DOMAIN st THEN Some(st[<<SERVICE_NAME, k>>]) ELSE None

\* The message msg contains the text s.
Includes(msg, s) == \E i \in DOMAIN msg : msg[i] = s

\* The last position of keys[1..n] that holds k (0: none).
LastBefore(keys, k, n) ==
    LET at == {j \in 1..n : j <= Len(keys) /\ keys[j] = k}
    IN  IF at = {} THEN 0 ELSE CHOOSE j \in at : \A h \in at : h <= j

IsCall(op) == last.op = op
Failed == last.result.tag = "Err"
NoFailure == last.fault.at = 0
AccessFails == last.fault.at >= 1 /\ last.fault.err \in BackendErrors

\* The keystore after the writes of pairs 1..n were applied, in order, to pre.
AfterWrites(pre, keys, values, n, k) ==
    LET j == LastBefore(keys, k, n)
    IN  IF j = 0 THEN Stored(pre, k) ELSE Some(values[j])

(***************************************************************************)
(* C1                                                                      *)
(***************************************************************************)

\* C1 (as stated): when the write of pair i is the first to fail in
\* StoreBatch, every pair before i is stored with its given value, every key
\* of a pair after i has the value or absence it had before the call, and
\* the result is an error naming the key of pair i.
C1_AsStated ==
    (IsCall("store_credentials_batch") /\ AccessFails) =>
        LET i == last.fault.at IN
        /\ \A j \in 1..(i - 1) : Stored(keystore, last.keys[j]) = Some(last.values[j])
        /\ \A j \in (i + 1)..Len(last.keys) :
              Stored(keystore, last.keys[j]) = Stored(last.pre, last.keys[j])
        /\ Failed
        /\ Includes(last.result.msg, last.keys[i])

\* C1 (amended): when the write of pair i is the first to fail in StoreBatch,
\* every key named before i holds the value of the last pair before i that
\* names it, every other key has the value or absence it had before the
\* call, no write is attempted after position i, and the result is an error
\* naming the key of pair i, not a count.
C1_FailFastNotAtomic ==
    (IsCall("store_credentials_batch") /\ AccessFails) =>
        LET i == last.fault.at IN
        /\ \A k \in Keys :
              Stored(keystore, k) = AfterWrites(last.pre, last.keys, last.values, i - 1, k)
        /\ Len(last.log) = i
        /\ \A a \in DOMAIN last.log : last.log[a].pos <= i
        /\ Failed
        /\ Includes(last.result.msg, last.keys[i])

\* A three-pair batch whose middle write failed: the first pair is stored,
\* the third is not.
C1_Witness ==
    /\ IsCall("store_credentials_batch") /\ AccessFails
    /\ Len(last.keys) = 3 /\ last.fault.at = 2
    /\ Cardinality(Named(last.keys)) = 3
    /\ last.pre = [e \in {} |-> "v1"]
    /\ Stored(keystore, last.keys[1]) = Some(last.values[1])
    /\ Stored(keystore, last.keys[3]) = None
    /\ Failed

(***************************************************************************)
(* C2                                                                      *)
(***************************************************************************)

\* The keystore's response to the single access of Get / Delete.
Response ==
    IF ~NoFailure THEN "backend-error"
    ELSE IF Stored(last.pre, last.keys[1]) = None THEN "not-found"
    ELSE "success"

\* The class of the command's result.
Outcome ==
    IF Failed THEN "backend-error"
    ELSE IF last.result.val = (IF IsCall("get_credential") THEN None ELSE FALSE)
         THEN "not-found"
    ELSE "success"

\* C2: Get, Delete and every per-key step of GetBatch and DeleteBatch turn
\* not-found into a non-error absent result (None, false, omission, no count)
\* and every other failure into an error, never the other way round.
C2_Classification ==
    /\ (IsCall("get_credential") \/ IsCall("delete_credential")) => Outcome = Response
    /\ IsCall("get_credentials_batch") =>
          /\ Failed <=> ~NoFailure
          /\ ~Failed => \A k \in Named(last.keys) :
                (k \in DOMAIN last.result.val) <=> (Stored(last.pre, k) # None)
    /\ IsCall("delete_credentials_batch") =>
          /\ Failed <=> ~NoFailure
          /\ ~Failed => last.result.val =
                Cardinality({k \in Named(last.keys) : Stored(last.pre, k) # None})

\* A Get of an absent key answered None, with the backend reachable.
C2_Witness ==
    /\ IsCall("get_credential") /\ NoFailure
    /\ Stored(last.pre, last.keys[1]) = None
    /\ last.result = Ok(None)

(***************************************************************************)
(* C3                                                                      *)
(***************************************************************************)

\* C3: every error of the six commands includes the offending key and the
\* backend's error text, and never the credential value.
C3_ErrorNamesKey ==
    (last.op # "idle" /\ Failed) =>
        /\ Includes(last.result.msg, last.keys[last.fault.at])
        /\ Includes(last.result.msg, Display(last.fault.err))
        /\ \A v \in Values : ~Includes(last.result.msg, v)

(***************************************************************************)
(* C4                                                                      *)
(***************************************************************************)

\* C4: without a failure, GetBatch returns the mapping whose keys are
\* exactly the requested keys that have a stored value, each with its
\* stored value; absent keys are omitted and cause no error.
C4_GetBatchMapping ==
    (IsCall("get_credentials_batch") /\ NoFailure) =>
        /\ ~Failed
        /\ DOMAIN last.result.val = {k \in Named(last.keys) : Stored(keystore, k) # None}
        /\ \A k \in DOMAIN last.result.val : Some(last.result.val[k]) = Stored(keystore, k)

\* Three keys asked, the second absent and the others stored: the mapping
\* holds the first and the third.
C4_Witness ==
    /\ IsCall("get_credentials_batch") /\ NoFailure
    /\ Len(last.keys) = 3
    /\ Stored(keystore, last.keys[1]) # None
    /\ Stored(keystore, last.keys[2]) = None
    /\ Stored(keystore, last.keys[3]) # None
    /\ ~Failed
    /\ DOMAIN last.result.val = {last.keys[1], last.keys[3]}

(***************************************************************************)
(* C5                                                                      *)
(***************************************************************************)

\* C5: without a failure, DeleteBatch returns the number of distinct
\* requested keys that had a value before the call, absent keys are neither
\* counted nor an error, and afterwards Get of every requested key is absent.
C5_DeleteBatchCount ==
    (IsCall("delete_credentials_batch") /\ NoFailure) =>
        /\ last.result =
              Ok(Cardinality({k \in Named(last.keys) : Stored(last.pre, k) # None}))
        /\ \A k \in Named(last.keys) :
              get_credential(keystore, k, NoFault).result = Ok(None)

\* A key asked twice and an absent key: the count is 1.
C5_Witness ==
    /\ IsCall("delete_credentials_batch") /\ NoFailure
    /\ Len(last.keys) = 3
    /\ last.keys[1] = last.keys[3]
    /\ Stored(last.pre, last.keys[1]) # None
    /\ Stored(last.pre, last.keys[2]) = None
    /\ last.result = Ok(1)
(***************************************************************************)
(* C6                                                                      *)
(***************************************************************************)

\* C6 (as stated): a Get of a key whose last operation was a successful
\* Store(key, value) returns Some(value).
C6_AsStated ==
    \A v \in Values :
        (IsCall("get_credential") /\ last.prior[last.keys[1]] = <<"stored", v>>) =>
            last.result = Ok(Some(v))

\* C6 (amended): a Get of a key whose last operation was a successful
\* Store(key, value) returns Some(value) when none of its own keyring calls
\* fails, and an error otherwise; it never returns None or another value.
C6_RoundTrip ==
    \A v \in Values :
        (IsCall("get_credential") /\ last.prior[last.keys[1]] = <<"stored", v>>) =>
            IF NoFailure THEN last.result = Ok(Some(v)) ELSE Failed

\* A Get that follows a successful Store of the key, with operations on
\* another key in between, and returns the stored value.
C6_Witness ==
    /\ IsCall("get_credential") /\ NoFailure
    /\ last.prior[last.keys[1]] = <<"stored", "v2">>
    /\ \E k \in Keys \ {last.keys[1]} : last.prior[k] = <<"deleted">>
    /\ last.result = Ok(Some("v2"))

(***************************************************************************)
(* C7                                                                      *)
(***************************************************************************)

\* C7: with no keyring failure, Delete of a key without a value returns
\* false, Delete of a key with a value returns true and leaves it absent,
\* and a Delete right after a Delete of the same key that returned true
\* returns false.
C7_DeleteIdempotent ==
    (IsCall("delete_credential") /\ NoFailure) =>
        LET key == last.keys[1] IN
        /\ Stored(last.pre, key) = None => last.result = Ok(FALSE)
        /\ Stored(last.pre, key) # None =>
              last.result = Ok(TRUE) /\ Stored(keystore, key) = None
        /\ last.prior[key] = <<"deleted">> => last.result = Ok(FALSE)

\* The second of two consecutive Deletes of a key: it returned false.
C7_Witness ==
    /\ IsCall("delete_credential") /\ NoFailure
    /\ last.prior[last.keys[1]] = <<"deleted">>
    /\ last.result = Ok(FALSE)

(***************************************************************************)
(* C8                                                                      *)
(***************************************************************************)

C9_StoreBatchInOrder ==
    IsCall("store_credentials_batch") =>
        /\ \A a \in DOMAIN last.log :
              last.log[a] = Access(a, "set_password", last.keys[a])
        /\ NoFailure =>
              /\ last.result = Ok(Len(last.keys))
              /\ Len(last.log) = Len(last.keys)
              /\ \A k \in Named(last.keys) :
                    Stored(keystore, k) =
                       Some(last.values[LastBefore(last.keys, k, Len(last.keys))])

\* A batch that names one key twice with different values: the count is the
\* length and the later value is the one stored.
C9_Witness ==
    /\ IsCall("store_credentials_batch") /\ NoFailure
    /\ Len(last.keys) = 3
    /\ last.keys[1] = last.keys[3] /\ last.values[1] # last.values[3]
    /\ last.result = Ok(3)
    /\ Stored(keystore, last.keys[1]) = Some(last.values[3])

(***************************************************************************)
(* C10                                                                     *)
(***************************************************************************)

\* C10: Get and GetBatch leave the keystore as it was on every outcome, and
\* Store, Delete, StoreBatch and DeleteBatch leave every key they do not name
\* as it was, whether they succeed or fail.
C10_Frame ==
    /\ (IsCall("get_credential") \/ IsCall("get_credentials_batch")) =>
          keystore = last.pre
    /\ last.op # "idle" =>
          /\ \A e \in DOMAIN keystore \cup DOMAIN last.pre :
                e[2] \notin Named(last.keys) =>
                   /\ e \in DOMAIN keystore /\ e \in DOMAIN last.pre
                   /\ keystore[e] = last.pre[e]
          /\ \A e \in DOMAIN keystore : e[1] = SERVICE_NAME /\ e[2] \in Keys

\* A failed DeleteBatch that removed one key and left an unnamed stored key
\* untouched.
C10_Witness ==
    /\ IsCall("delete_credentials_batch") /\ Failed
    /\ Stored(last.pre, last.keys[1]) # None
    /\ Stored(keystore, last.keys[1]) = None
    /\ \E k \in Keys \ Named(last.keys) :
          Stored(last.pre, k) # None /\ Stored(keystore, k) = Stored(last.pre, k)
====
